---- MODULE Spec2Model ----
(***************************************************************************)
(* A model of the Electric-Referee campaign generator.                     *)
(*                                                                         *)
(*   campaign.py             the entity model (World, Location, Character, *)
(*                           Relationship, Item), its encoders/decoders    *)
(*   campaign_generators.py  the builder generate_world and the per-entity *)
(*                           generate_* functions                          *)
(*                                                                         *)
(* Python objects live in a heap (a sequence; an object's identity is its  *)
(* index), because the code relies on object identity: Relationship and    *)
(* Character define no __eq__, so `in` and `==` compare identities, and a  *)
(* Location that is referenced twice is one object.                        *)
(* Strings are sequences of one-character strings, so that split("|") and  *)
(* the whitespace removal are computed, not assumed.                       *)
(***************************************************************************)
EXTENDS Integers, Sequences, FiniteSets, TLC

\* ------------------------------------------------------------------ bounds
MaxLocations == 2     \* numLocations is requested in -1 .. MaxLocations, or too large
MaxCharacters == 2    \* numCharacters is requested in -1 .. MaxCharacters
MaxItems == 2         \* numItems is requested in 0 .. MaxItems
MaxSteps == 3         \* entity steps one requested run may take
MaxClock == 2         \* the wall clock (seconds) runs over 0 .. MaxClock
MaxWorldSize == 2     \* entity-model calls add up to this many entities to a World
MaxFlips == 2         \* flipped() is called this often in a row
MaxTraits == 3        \* add_trait calls add up to this many traits over all entities

\* ------------------------------------------------------- program constants
MAX_LOCATIONS == 10
MAX_CHARACTERS == 10
RETRY_LIMIT == 3
MEDIUM == 2

Unbound == 0          \* a local variable that was never assigned
NoneRef == 0          \* Python's None where an object is expected
NoWorld == [name |-> "None"]

\* ----------------------------------------------------------------- strings
EmptyStr == <<>>

\* str.split(sep): the fields between the separators, at least one field
RECURSIVE split(_, _)
split(s, sep) ==
    IF \E k \in 1..Len(s) : s[k] = sep
    THEN LET k == CHOOSE k \in 1..Len(s) : s[k] = sep /\ \A m \in 1..(k-1) : s[m] # sep
         IN  <<SubSeq(s, 1, k-1)>> \o split(SubSeq(s, k+1, Len(s)), sep)
    ELSE <<s>>

NotSpace(c) == c # " "

\* the name is taken as it is, with its whitespace
remove_whitespace_Kept(text) == text

\* re.sub(r'\s+', '', text)
remove_whitespace(text) == SelectSeq(text, NotSpace)

\* ------------------------------------------------- the Generation Service
\* What openai.ChatCompletion.create may answer: a text, and whether
\* finish_reason is "length".
\* A well-formed pair, one whose name has leading whitespace, a text without
\* the delimiter, and a cut-off reply whose text would still parse.
Replies ==
    { [truncated |-> FALSE, content |-> <<"a", "|", "b">>],
      [truncated |-> FALSE, content |-> <<" ", "b", "|", "a">>],
      [truncated |-> FALSE, content |-> <<"a", "b">>],
      [truncated |-> TRUE, content |-> <<"a", "|", "b">>] }

VARIABLES
    pc,            \* where generate_world is
    args,          \* numLocations, numCharacters, numItems
    world,         \* the World object, None before it exists
    heap,          \* every Location, Character, Relationship and Item object
    now,           \* datetime.datetime.now(), in seconds
    i, j,          \* the loop variables of generate_world
    ia, ib,        \* positions of characterA and characterB in world.characters
    relKind,       \* which relationship generator the current pair uses
    location, character, relationship, item,   \* locals of generate_world
    calls,         \* Generation Service calls made so far
    stepCalls,     \* Generation Service calls made in the current step
    stepLog,       \* how the last finished step ended
    request,       \* the last request: its context messages, and its reply's flag
    saved,         \* what save_campaign_object was given, in order, and whether
                   \* the object was linked into the World by then
    raised,        \* the exception that ended the run
    ret,           \* the last entity-model call and what it returned
    doc,           \* the last encoded document
    decoded        \* what the decoder made of doc

vars == <<pc, args, world, heap, now, i, j, ia, ib, relKind, location, character,
          relationship, item, calls, stepCalls, stepLog, request, saved, raised,
          ret, doc, decoded>>

builderLocals == <<i, j, ia, ib, relKind, location, character, relationship, item>>
apiVars == <<ret, doc, decoded>>

\* ------------------------------------------------------------ entity model
\* datetime.datetime.now().strftime(...): the clock may have moved on
Times == IF now < MaxClock THEN {now, now + 1} ELSE {now}

\* World.__init__
NewWorld(name, description, t) ==
    [name |-> name, description |-> description, characters |-> <<>>,
     relationships |-> <<>>, locations |-> <<>>, created_time |-> t]

\* Location.__init__
NewLocation(name) ==
    [type |-> "Location", name |-> name, description |-> EmptyStr,
     traits |-> <<>>, inventory |-> <<>>]

\* Character.__init__
NewCharacter(name, t) ==
    [type |-> "Character", name |-> name, description |-> EmptyStr,
     traits |-> <<>>, inventory |-> <<>>, created_time |-> t]

\* Relationship.__init__
NewRelationship(characterA, characterB, t) ==
    [type |-> "Relationship",
     characterAName |-> characterA.name, characterA_ID |-> characterA.created_time,
     characterBName |-> characterB.name, characterB_ID |-> characterB.created_time,
     relateAB |-> EmptyStr, relateBA |-> EmptyStr, created_time |-> t]

\* Item.__init__
NewItem(name) ==
    [type |-> "Item", name |-> name, description |-> EmptyStr,
     traits |-> <<>>, size |-> MEDIUM]

\* set_symmetric_relationship that describes one direction only
set_symmetric_relationship_OneSide(r, d) == [r EXCEPT !.relateAB = d]

\* Relationship.set_symmetric_relationship
set_symmetric_relationship(r, d) == [r EXCEPT !.relateAB = d, !.relateBA = d]

\* Relationship.set_asymmetric_relationship
set_asymmetric_relationship(r, ab, ba) == [r EXCEPT !.relateAB = ab, !.relateBA = ba]

\* flipped() that leaves the new object its own timestamp
flipped_OwnTime(r, t) ==
    LET tmp == NewRelationship(NewCharacter(r.characterBName, t),
                               NewCharacter(r.characterAName, t), t)
    IN  [tmp EXCEPT !.characterA_ID = r.characterB_ID,
                    !.characterB_ID = r.characterA_ID,
                    !.relateAB = r.relateBA,
                    !.relateBA = r.relateAB]

\* flipped() that leaves the two descriptions where they were
flipped_KeptDescriptions(r, t) ==
    LET tmp == NewRelationship(NewCharacter(r.characterBName, t),
                               NewCharacter(r.characterAName, t), t)
    IN  [tmp EXCEPT !.created_time = r.created_time,
                    !.characterA_ID = r.characterB_ID,
                    !.characterB_ID = r.characterA_ID,
                    !.relateAB = r.relateAB,
                    !.relateBA = r.relateBA]

\* Relationship.flipped: a new object; its own timestamp and the timestamps of
\* the two throw-away Characters are overwritten
flipped(r, t) ==
    LET tmp == NewRelationship(NewCharacter(r.characterBName, t),
                               NewCharacter(r.characterAName, t), t)
    IN  [tmp EXCEPT !.created_time = r.created_time,
                    !.characterA_ID = r.characterB_ID,
                    !.characterB_ID = r.characterA_ID,
                    !.relateAB = r.relateBA,
                    !.relateBA = r.relateAB]

\* `x in lst` for objects without __eq__ (Relationship has none): identity
InList(oid, lst) == \E k \in 1..Len(lst) : lst[k] = oid

\* the identity of the next object that is created
FreshOid(h) == Len(h) + 1

\* World.add_relationship on the object oid: the condition of its `if`.
\* relationship.flipped() is a newly created object.
add_relationship_ok(w, h, oid) ==
    ~InList(oid, w.relationships) /\ ~InList(FreshOid(h), w.relationships)

\* World.add_relationship: the World afterwards (the return value is
\* add_relationship_ok)
add_relationship(w, h, oid) ==
    IF add_relationship_ok(w, h, oid)
    THEN [w EXCEPT !.relationships = Append(@, oid)]
    ELSE w

\* add_location that puts the new location first
add_location_Front(w, oid) == [w EXCEPT !.locations = <<oid>> \o @]

\* World.add_location / World.add_character on an object of the right type
add_location(w, oid) == [w EXCEPT !.locations = Append(@, oid)]
add_character(w, oid) == [w EXCEPT !.characters = Append(@, oid)]

\* Location.add_item
add_item(h, loc, oid) == [h EXCEPT ![loc].inventory = Append(@, oid)]

\* World.get_relationship_between: the first relationship whose two names are
\* the two characters' names, in either order; None otherwise.
\* RelMatches_OneWay is the test for the stored order only.
RelMatches_OneWay(r, a, b) ==
    r.characterAName = a.name /\ r.characterBName = b.name

RelMatches(r, a, b) ==
    \/ r.characterAName = a.name /\ r.characterBName = b.name
    \/ r.characterAName = b.name /\ r.characterBName = a.name

get_relationship_between(w, h, a, b) ==
    LET hits == {k \in 1..Len(w.relationships) : RelMatches(h[w.relationships[k]], a, b)}
    IN  IF hits = {} THEN NoneRef
        ELSE w.relationships[CHOOSE k \in hits : \A m \in hits : k <= m]


\* ------------------------------------------------------------ the encoders
\* A JSON document is a tree of tagged values: a string, a number, a list, a
\* dict with string keys chosen at run time (traits), an object (the dict of
\* an entity's fields).
JStr(s) == [t |-> "str", v |-> s]
JNum(n) == [t |-> "num", v |-> n]
JList(l) == [t |-> "list", v |-> l]
JDict(kv) == [t |-> "dict", v |-> kv]
JObject(fields) == [t |-> "object", v |-> fields]

\* a list of (quality, description) tuples is written as a list of lists
JTraitList(traits) ==
    JList([k \in 1..Len(traits) |-> JList(<<JStr(traits[k][1]), JStr(traits[k][2])>>)])

\* a dict quality -> description
JTraitDict(traits) ==
    JDict([k \in 1..Len(traits) |-> <<traits[k][1], JStr(traits[k][2])>>])

\* json.dumps with WorldEncoder, LocationEncoder, ...: default(o) is
\* o.__dict__, so a nested object becomes the document of its fields; the
\* document of an object has no identity and no type

\* ItemEncoder.default: Size, an IntEnum, is written as its number
ItemDoc(h, oid) ==
    JObject([name |-> JStr(h[oid].name), description |-> JStr(h[oid].description),
             traits |-> JTraitDict(h[oid].traits), size |-> JNum(h[oid].size)])

\* LocationEncoder.default
LocationDoc(h, oid) ==
    JObject([name |-> JStr(h[oid].name), description |-> JStr(h[oid].description),
             traits |-> JTraitList(h[oid].traits),
             inventory |-> JList([k \in 1..Len(h[oid].inventory) |->
                                     ItemDoc(h, h[oid].inventory[k])])])

\* CharacterEncoder.default
CharacterDoc(h, oid) ==
    JObject([name |-> JStr(h[oid].name), description |-> JStr(h[oid].description),
             traits |-> JTraitDict(h[oid].traits),
             inventory |-> JList([k \in 1..Len(h[oid].inventory) |->
                                     ItemDoc(h, h[oid].inventory[k])]),
             created_time |-> JNum(h[oid].created_time)])

\* RelationshipEncoder.default
RelationshipDoc(h, oid) ==
    JObject([characterAName |-> JStr(h[oid].characterAName),
             characterA_ID |-> JNum(h[oid].characterA_ID),
             characterBName |-> JStr(h[oid].characterBName),
             characterB_ID |-> JNum(h[oid].characterB_ID),
             relateAB |-> JStr(h[oid].relateAB), relateBA |-> JStr(h[oid].relateBA),
             created_time |-> JNum(h[oid].created_time)])

\* WorldEncoder.default
WorldDoc(w, h) ==
    JObject([name |-> JStr(w.name), description |-> JStr(w.description),
             characters |-> JList([k \in 1..Len(w.characters) |->
                                      CharacterDoc(h, w.characters[k])]),
             relationships |-> JList([k \in 1..Len(w.relationships) |->
                                         RelationshipDoc(h, w.relationships[k])]),
             locations |-> JList([k \in 1..Len(w.locations) |->
                                     LocationDoc(h, w.locations[k])]),
             created_time |-> JNum(w.created_time)])

\* World.locations_as_system_msg
locations_as_system_msg(w, h) ==
    [k \in 1..Len(w.locations) |-> LocationDoc(h, w.locations[k])]

\* World.as_system_msg
as_system_msg(w, h) == WorldDoc(w, h)

\* World.world_basics: "The world is called " + name
world_basics(w) == JStr(<<"T">> \o w.name)

\* ------------------------------------------------------------ the builder
\* `x in locals()`: locals() maps variable names (strings) to values, and x
\* is an object, never a key of it
in_locals(x) == FALSE

\* the text has no second field: message[1] raises
NoSecondField(content) == Len(split(content, "|")) < 2

\* generate_world without the finish_reason test
WorldReplyFails_NoLengthTest(reply) == NoSecondField(reply.content)

\* generate_world, lines 299-305: the reply is cut off (finish_reason ==
\* "length"), or message[1] is missing
WorldReplyFails(reply) == reply.truncated \/ NoSecondField(reply.content)

\* generate_location without the finish_reason test
LocationReplyFails_NoLengthTest(reply) == NoSecondField(reply.content)

\* generate_location, lines 130-137
LocationReplyFails(reply) == reply.truncated \/ NoSecondField(reply.content)

\* generate_character without the finish_reason test
CharacterReplyFails_NoLengthTest(reply) == NoSecondField(reply.content)

\* generate_character, lines 162-169
CharacterReplyFails(reply) == reply.truncated \/ NoSecondField(reply.content)

\* generate_item, lines 257-264
ItemReplyFails(reply) == reply.truncated \/ NoSecondField(reply.content)

\* generate_asymmetric_relationship, lines 226-233
AsymmetricReplyFails(reply) == reply.truncated \/ NoSecondField(reply.content)

\* generate_symmetric_relationship, lines 194-201: the text is not split
SymmetricReplyFails(reply) == reply.truncated

\* generate_location: the Location made of a reply that does not fail
generate_location(reply) ==
    LET message == split(reply.content, "|")
    IN  [NewLocation(message[1]) EXCEPT !.description = message[2]]

\* generate_character
generate_character(reply, t) ==
    LET message == split(reply.content, "|")
    IN  [NewCharacter(message[1], t) EXCEPT !.description = message[2]]

\* generate_item
generate_item(reply) ==
    LET message == split(reply.content, "|")
    IN  [NewItem(message[1]) EXCEPT !.description = message[2]]

\* generate_symmetric_relationship
generate_symmetric_relationship(a, b, reply, t) ==
    set_symmetric_relationship(NewRelationship(a, b, t), reply.content)

\* generate_asymmetric_relationship
generate_asymmetric_relationship(a, b, reply, t) ==
    LET message == split(reply.content, "|")
    IN  set_asymmetric_relationship(NewRelationship(a, b, t), message[1], message[2])

\* How a step ended: "ok" (an entity was generated), "exhausted" (every attempt
\* failed and the code went on), "raised" (the run ended with an exception);
\* the calls it made, the attempts that had failed before its last reply, the
\* relationship generator it used, its last reply, and its target collection
\* before and after.
NoStep == [kind |-> "none", outcome |-> "none", calls |-> 0, failed |-> 0,
           generator |-> "none",
           reply |-> [truncated |-> FALSE, content |-> EmptyStr],
           before |-> <<>>, after |-> <<>>]

Step(kind, outcome, n, reply, before, after) ==
    [kind |-> kind, outcome |-> outcome, calls |-> n, failed |-> j,
     generator |-> IF kind = "relationship" THEN relKind ELSE "none",
     reply |-> reply, before |-> before, after |-> after]

\* openai.ChatCompletion.create(messages=...): the system messages that go
\* ahead of the instruction, and the finish_reason of the reply that came back
Request(kind, context, reply) ==
    [kind |-> kind, context |-> context, truncated |-> reply.truncated]

\* a retry loop that goes round once more than RETRY_LIMIT times
MayRetry_OneMore(n) == n < RETRY_LIMIT

\* for j in range(RETRY_LIMIT): after the failed attempt j (counted from 0)
\* another attempt follows
MayRetry(n) == n + 1 < RETRY_LIMIT

\* the object is in a collection of the World or in an inventory
Linked(w, h, oid) ==
    \/ InList(oid, w.locations) \/ InList(oid, w.characters)
    \/ InList(oid, w.relationships)
    \/ \E o \in 1..Len(h) : h[o].type = "Location" /\ InList(oid, h[o].inventory)

\* SAVE_CREATIONS switched off
save_campaign_object_Off(log, kind, oid, linked) == log

\* if(SAVE_CREATIONS): save_campaign_object(obj)
save_campaign_object(log, kind, oid, linked) ==
    Append(log, [kind |-> kind, oid |-> oid, linked |-> linked])

\* the entity steps a call may take: one per location, character and item,
\* and one per pair of characters
Steps(a) ==
    LET l == IF a.numLocations < 0 THEN 0 ELSE a.numLocations
        c == IF a.numCharacters < 0 THEN 0 ELSE a.numCharacters
    IN  l + c + ((c * (c - 1)) \div 2) + a.numItems

\* the arguments generate_world is called with
Args ==
    { a \in [numLocations : (-1 .. MaxLocations) \cup {MAX_LOCATIONS + 1},
             numCharacters : -1 .. MaxCharacters,
             numItems : 0 .. MaxItems] :
        a.numLocations > MaxLocations \/ Steps(a) <= MaxSteps }

\* nothing has been called yet
InitIdle ==
    /\ i = 0 /\ j = 0 /\ ia = 1 /\ ib = 1
    /\ relKind = "none"
    /\ location = Unbound /\ character = Unbound
    /\ relationship = Unbound /\ item = Unbound
    /\ calls = 0 /\ stepCalls = 0
    /\ stepLog = NoStep
    /\ request = [kind |-> "none", context |-> <<>>, truncated |-> FALSE]
    /\ saved = <<>>
    /\ raised = "none"
    /\ ret = [op |-> "none"]
    /\ doc = [kind |-> "none"]
    /\ decoded = [kind |-> "none"]

Init ==
    /\ pc = "start"
    /\ args \in Args
    /\ world = NoWorld
    /\ heap = <<>>
    /\ now = 0
    /\ InitIdle

\* generate_world, lines 281-289: the sanity checks. Both pairs of checks
\* test numLocations.
ArgsRejected(a) ==
    \/ a.numLocations < 0
    \/ a.numLocations > MAX_LOCATIONS
    \/ a.numLocations < 0
    \/ a.numLocations > MAX_CHARACTERS

CheckArguments ==
    /\ pc = "start"
    /\ IF ArgsRejected(args)
       THEN pc' = "raised" /\ raised' = "ValueError"
       ELSE pc' = "create" /\ raised' = raised
    /\ UNCHANGED <<args, world, heap, now, builderLocals, calls, stepCalls, stepLog,
                   request, saved, apiVars>>

\* generate_world, lines 291-305: the one world-creation call
CreateWorld(reply) ==
    /\ pc = "create"
    /\ calls' = calls + 1
    /\ request' = Request("world", <<>>, reply)
    /\ IF WorldReplyFails(reply)
       THEN /\ pc' = "raised" /\ raised' = "ValueError"
            /\ UNCHANGED <<world, now>>
       ELSE \E t \in Times :
               LET message == split(reply.content, "|")
               IN  /\ world' = NewWorld(remove_whitespace(message[1]), message[2], t)
                   /\ now' = t
                   /\ pc' = "locations" /\ raised' = raised
    /\ stepLog' = Step("world", IF WorldReplyFails(reply) THEN "raised" ELSE "ok",
                       1, reply, <<>>, <<>>)
    /\ UNCHANGED <<args, heap, builderLocals, stepCalls, saved, apiVars>>

\* generate_world, lines 307-316: one attempt of the location step i, and
\* what follows the retry loop when it was the last attempt
LocationAttempt(reply) ==
    /\ pc = "locations" /\ i < args.numLocations
    /\ calls' = calls + 1
    /\ request' = Request("location", locations_as_system_msg(world, heap), reply)
    /\ IF ~LocationReplyFails(reply)
       THEN LET oid == FreshOid(heap)
            IN  /\ heap' = Append(heap, generate_location(reply))
                /\ location' = oid
                /\ saved' = save_campaign_object(saved, "Location", oid, Linked(world, heap, oid))
                /\ world' = IF in_locals(oid) THEN world ELSE add_location(world, oid)
                /\ stepLog' = Step("location", "ok", stepCalls + 1, reply,
                                   world.locations, world'.locations)
                /\ i' = i + 1 /\ j' = 0 /\ stepCalls' = 0
                /\ UNCHANGED <<pc, raised>>
       ELSE IF MayRetry(j)
       THEN /\ j' = j + 1 /\ stepCalls' = stepCalls + 1
            /\ UNCHANGED <<pc, raised, heap, location, saved, world, stepLog, i>>
       ELSE IF location = Unbound
       THEN /\ pc' = "raised" /\ raised' = "UnboundLocalError"
            /\ stepLog' = Step("location", "raised", stepCalls + 1, reply,
                               world.locations, world.locations)
            /\ stepCalls' = 0
            /\ UNCHANGED <<heap, location, saved, world, i, j>>
       ELSE /\ world' = IF in_locals(location) THEN world ELSE add_location(world, location)
            /\ stepLog' = Step("location", "exhausted", stepCalls + 1, reply,
                               world.locations, world'.locations)
            /\ i' = i + 1 /\ j' = 0 /\ stepCalls' = 0
            /\ UNCHANGED <<pc, raised, heap, location, saved>>
    /\ UNCHANGED <<args, now, ia, ib, relKind, character, relationship, item, apiVars>>

\* the location loop ends
LocationsDone ==
    /\ pc = "locations" /\ i >= args.numLocations
    /\ pc' = "characters" /\ i' = 0 /\ j' = 0
    /\ UNCHANGED <<args, world, heap, now, ia, ib, relKind, location, character,
                   relationship, item, calls, stepCalls, stepLog, request, saved,
                   raised, apiVars>>

\* generate_world, lines 318-327: one attempt of the character step i
CharacterAttempt(reply) ==
    /\ pc = "characters" /\ i < args.numCharacters
    /\ calls' = calls + 1
    /\ request' = Request("character", <<as_system_msg(world, heap)>>, reply)
    /\ IF ~CharacterReplyFails(reply)
       THEN \E t \in Times :
            LET oid == FreshOid(heap)
            IN  /\ heap' = Append(heap, generate_character(reply, t))
                /\ now' = t
                /\ character' = oid
                /\ saved' = save_campaign_object(saved, "Character", oid, Linked(world, heap, oid))
                /\ world' = IF in_locals(oid) THEN world ELSE add_character(world, oid)
                /\ stepLog' = Step("character", "ok", stepCalls + 1, reply,
                                   world.characters, world'.characters)
                /\ i' = i + 1 /\ j' = 0 /\ stepCalls' = 0
                /\ UNCHANGED <<pc, raised>>
       ELSE IF MayRetry(j)
       THEN /\ j' = j + 1 /\ stepCalls' = stepCalls + 1
            /\ UNCHANGED <<pc, raised, heap, now, character, saved, world, stepLog, i>>
       ELSE IF character = Unbound
       THEN /\ pc' = "raised" /\ raised' = "UnboundLocalError"
            /\ stepLog' = Step("character", "raised", stepCalls + 1, reply,
                               world.characters, world.characters)
            /\ stepCalls' = 0
            /\ UNCHANGED <<heap, now, character, saved, world, i, j>>
       ELSE /\ world' = IF in_locals(character) THEN world ELSE add_character(world, character)
            /\ stepLog' = Step("character", "exhausted", stepCalls + 1, reply,
                               world.characters, world'.characters)
            /\ i' = i + 1 /\ j' = 0 /\ stepCalls' = 0
            /\ UNCHANGED <<pc, raised, heap, now, character, saved>>
    /\ UNCHANGED <<args, ia, ib, relKind, location, relationship, item, apiVars>>

\* the character loop ends; the loops over world.characters begin
CharactersDone ==
    /\ pc = "characters" /\ i >= args.numCharacters
    /\ pc' = "relationships" /\ ia' = 1 /\ ib' = 1
    /\ UNCHANGED <<args, world, heap, now, i, j, relKind, location, character,
                   relationship, item, calls, stepCalls, stepLog, request, saved,
                   raised, apiVars>>

\* the next pair of positions in the nested loops over world.characters
NextPair ==
    IF ib < Len(world.characters)
    THEN ia' = ia /\ ib' = ib + 1
    ELSE ia' = ia + 1 /\ ib' = 1

\* generate_world, lines 329-336: the pair (characterA, characterB) is skipped,
\* or one of the two generators is chosen for it. generate and asymmetric
\* are the two random draws.
RelationshipPair(generate, asymmetric) ==
    /\ pc = "relationships" /\ ia <= Len(world.characters)
    /\ LET a == world.characters[ia]
           b == world.characters[ib]
       IN  IF \/ a = b
              \/ get_relationship_between(world, heap, heap[a], heap[b]) # NoneRef
              \/ ~generate
           THEN NextPair /\ UNCHANGED <<pc, relKind, j>>
           ELSE /\ pc' = "relationship" /\ j' = 0
                /\ relKind' = IF asymmetric THEN "asymmetric" ELSE "symmetric"
                /\ UNCHANGED <<ia, ib>>
    /\ UNCHANGED <<args, world, heap, now, i, location, character, relationship, item,
                   calls, stepCalls, stepLog, request, saved, raised, apiVars>>

RelationshipReplyFails(kind, reply) ==
    IF kind = "asymmetric" THEN AsymmetricReplyFails(reply) ELSE SymmetricReplyFails(reply)

\* generate_world, lines 336-354: one attempt for the pair
RelationshipAttempt(reply) ==
    /\ pc = "relationship"
    /\ calls' = calls + 1
    /\ request' = Request(relKind, <<CharacterDoc(heap, world.characters[ia]),
                                     CharacterDoc(heap, world.characters[ib])>>, reply)
    /\ IF ~RelationshipReplyFails(relKind, reply)
       THEN \E t \in Times :
            LET oid == FreshOid(heap)
                a == heap[world.characters[ia]]
                b == heap[world.characters[ib]]
            IN  /\ heap' = Append(heap,
                                  IF relKind = "asymmetric"
                                  THEN generate_asymmetric_relationship(a, b, reply, t)
                                  ELSE generate_symmetric_relationship(a, b, reply, t))
                /\ now' = t
                /\ relationship' = oid
                /\ saved' = save_campaign_object(saved, "Relationship", oid, Linked(world, heap, oid))
                /\ world' = IF in_locals(oid) THEN world
                            ELSE add_relationship(world, heap', oid)
                /\ stepLog' = Step("relationship", "ok", stepCalls + 1, reply,
                                   world.relationships, world'.relationships)
                /\ NextPair /\ pc' = "relationships" /\ j' = 0 /\ stepCalls' = 0
                /\ UNCHANGED raised
       ELSE IF MayRetry(j)
       THEN /\ j' = j + 1 /\ stepCalls' = stepCalls + 1
            /\ UNCHANGED <<pc, raised, heap, now, relationship, saved, world, stepLog, ia, ib>>
       ELSE IF relationship = Unbound
       THEN /\ pc' = "raised" /\ raised' = "UnboundLocalError"
            /\ stepLog' = Step("relationship", "raised", stepCalls + 1, reply,
                               world.relationships, world.relationships)
            /\ stepCalls' = 0
            /\ UNCHANGED <<heap, now, relationship, saved, world, ia, ib, j>>
       ELSE /\ world' = IF in_locals(relationship) THEN world
                        ELSE add_relationship(world, heap, relationship)
            /\ stepLog' = Step("relationship", "exhausted", stepCalls + 1, reply,
                               world.relationships, world'.relationships)
            /\ NextPair /\ pc' = "relationships" /\ j' = 0 /\ stepCalls' = 0
            /\ UNCHANGED <<raised, heap, now, relationship, saved>>
    /\ UNCHANGED <<args, i, relKind, location, character, item, apiVars>>

\* the loops over world.characters end
RelationshipsDone ==
    /\ pc = "relationships" /\ ia > Len(world.characters)
    /\ pc' = "items" /\ i' = 0 /\ j' = 0
    /\ UNCHANGED <<args, world, heap, now, ia, ib, relKind, location, character,
                   relationship, item, calls, stepCalls, stepLog, request, saved,
                   raised, apiVars>>

\* generate_world, line 357: location = random.choice(world.locations), an
\* IndexError when there is none
ChooseItemLocation ==
    /\ pc = "items" /\ i < args.numItems
    /\ IF world.locations = <<>>
       THEN pc' = "raised" /\ raised' = "IndexError" /\ UNCHANGED <<location, j>>
       ELSE /\ \E k \in 1..Len(world.locations) : location' = world.locations[k]
            /\ pc' = "item" /\ j' = 0 /\ UNCHANGED raised
    /\ UNCHANGED <<args, world, heap, now, i, ia, ib, relKind, character, relationship,
                   item, calls, stepCalls, stepLog, request, saved, apiVars>>

\* generate_world, lines 358-366: one attempt of the item step i
ItemAttempt(reply) ==
    /\ pc = "item"
    /\ calls' = calls + 1
    /\ request' = Request("item", <<world_basics(world), LocationDoc(heap, location)>>,
                           reply)
    /\ IF ~ItemReplyFails(reply)
       THEN LET oid == FreshOid(heap)
                made == Append(heap, generate_item(reply))
            IN  /\ heap' = IF in_locals(oid) THEN made ELSE add_item(made, location, oid)
                /\ item' = oid
                /\ saved' = save_campaign_object(saved, "Item", oid, Linked(world, heap, oid))
                /\ stepLog' = Step("item", "ok", stepCalls + 1, reply,
                                   heap[location].inventory, heap'[location].inventory)
                /\ i' = i + 1 /\ j' = 0 /\ stepCalls' = 0 /\ pc' = "items"
                /\ UNCHANGED raised
       ELSE IF MayRetry(j)
       THEN /\ j' = j + 1 /\ stepCalls' = stepCalls + 1
            /\ UNCHANGED <<pc, raised, heap, item, saved, stepLog, i>>
       ELSE IF item = Unbound
       THEN /\ pc' = "raised" /\ raised' = "UnboundLocalError"
            /\ stepLog' = Step("item", "raised", stepCalls + 1, reply,
                               heap[location].inventory, heap[location].inventory)
            /\ stepCalls' = 0
            /\ UNCHANGED <<heap, item, saved, i, j>>
       ELSE /\ heap' = IF in_locals(item) THEN heap ELSE add_item(heap, location, item)
            /\ stepLog' = Step("item", "exhausted", stepCalls + 1, reply,
                               heap[location].inventory, heap'[location].inventory)
            /\ i' = i + 1 /\ j' = 0 /\ stepCalls' = 0 /\ pc' = "items"
            /\ UNCHANGED <<raised, item, saved>>
    /\ UNCHANGED <<args, world, now, ia, ib, relKind, location, character, relationship,
                   apiVars>>

\* generate_world, lines 368-370: the World is saved and returned
ReturnWorld ==
    /\ pc = "items" /\ i >= args.numItems
    /\ pc' = "done"
    /\ saved' = save_campaign_object(saved, "World", 0, FALSE)
    /\ UNCHANGED <<args, world, heap, now, builderLocals, calls, stepCalls, stepLog,
                   request, raised, apiVars>>

Next ==
    \/ CheckArguments
    \/ \E reply \in Replies : CreateWorld(reply)
    \/ \E reply \in Replies : LocationAttempt(reply)
    \/ LocationsDone
    \/ \E reply \in Replies : CharacterAttempt(reply)
    \/ CharactersDone
    \/ \E generate, asymmetric \in BOOLEAN : RelationshipPair(generate, asymmetric)
    \/ \E reply \in Replies : RelationshipAttempt(reply)
    \/ RelationshipsDone
    \/ ChooseItemLocation
    \/ \E reply \in Replies : ItemAttempt(reply)
    \/ ReturnWorld

Spec == Init /\ [][Next]_vars

\* a call made in the last second the clock shows: every object of the run
\* is created in that second
InitLate ==
    /\ pc = "start"
    /\ args \in Args
    /\ world = NoWorld
    /\ heap = <<>>
    /\ now = MaxClock
    /\ InitIdle

\* generate_world is one sequential call: as long as a statement is left to
\* run, it runs
SpecFair == InitLate /\ [][Next]_vars /\ WF_vars(Next)


\* ------------------------------------------- the entity model, called directly
\* The objects a client has constructed before it calls the World: three
\* Characters, a Relationship r1 between the first two, a second Relationship
\* that is either built like r1 (a distinct object, equal in content when made
\* in the same second) or is r1.flipped(), and a Location.
Names == { <<"a">>, <<"b">> }
P == <<"p">>
Q == <<"q">>

\* the seconds at which five objects are made one after the other, from
\* second 0 on; between two of them the clock stays or moves on
CastTimes ==
    { t \in [1..5 -> 0..MaxClock] :
        t[1] = 0 /\ \A k \in 1..4 : t[k+1] \in {t[k], t[k] + 1} }

CastHeap(n1, n2, n3, t, twin) ==
    LET c1 == NewCharacter(n1, t[1])
        c2 == NewCharacter(n2, t[2])
        c3 == NewCharacter(n3, t[3])
        r1 == set_asymmetric_relationship(NewRelationship(c1, c2, t[4]), P, Q)
        r2 == IF twin
              THEN set_asymmetric_relationship(NewRelationship(c1, c2, t[5]), P, Q)
              ELSE flipped(r1, t[5])
    IN  <<c1, c2, c3, r1, r2, NewLocation(<<"a">>)>>

OfType(h, type) == {o \in 1..Len(h) : h[o].type = type}

InitCast ==
    \E n1, n2, n3 \in Names, t \in CastTimes, twin \in BOOLEAN :
        /\ heap = CastHeap(n1, n2, n3, t, twin)
        /\ now = t[5]
        /\ world = NewWorld(<<"w">>, <<"d">>, 0)

NoArgs == [numLocations |-> 0, numCharacters |-> 0, numItems |-> 0]

InitWorld ==
    /\ pc = "api"
    /\ args = NoArgs
    /\ InitCast
    /\ InitIdle

builderVars == <<args, builderLocals, calls, stepCalls, stepLog, request, saved, raised>>

\* the entities a World holds
WorldSize(w) == Len(w.characters) + Len(w.relationships) + Len(w.locations)

\* a call on the World: its argument, what it returned or raised, the target
\* collection and the whole World as they were before it
Call(op, arg, result, before) ==
    [op |-> op, arg |-> arg, result |-> result, before |-> before, world |-> world]

\* the type assertion left out
AssertType_Skipped(h, o, type) == TRUE

\* assert(type(x) == T)
AssertType(h, o, type) == h[o].type = type

\* World.add_character(o)
ApiAddCharacter(o) ==
    /\ pc = "api" /\ WorldSize(world) < MaxWorldSize
    /\ IF ~AssertType(heap, o, "Character")
       THEN /\ ret' = Call("add_character", o, "AssertionError", world.characters)
            /\ UNCHANGED world
       ELSE /\ world' = add_character(world, o)
            /\ ret' = Call("add_character", o, "None", world.characters)
    /\ UNCHANGED <<pc, heap, now, builderVars, doc, decoded>>

\* World.add_location(o)
ApiAddLocation(o) ==
    /\ pc = "api" /\ WorldSize(world) < MaxWorldSize
    /\ IF ~AssertType(heap, o, "Location")
       THEN /\ ret' = Call("add_location", o, "AssertionError", world.locations)
            /\ UNCHANGED world
       ELSE /\ world' = add_location(world, o)
            /\ ret' = Call("add_location", o, "None", world.locations)
    /\ UNCHANGED <<pc, heap, now, builderVars, doc, decoded>>

\* World.add_relationship(o)
ApiAddRelationship(o) ==
    /\ pc = "api" /\ WorldSize(world) < MaxWorldSize
    /\ IF ~AssertType(heap, o, "Relationship")
       THEN /\ ret' = Call("add_relationship", o, "AssertionError", world.relationships)
            /\ UNCHANGED world
       ELSE /\ world' = add_relationship(world, heap, o)
            /\ ret' = Call("add_relationship", o,
                           IF add_relationship_ok(world, heap, o) THEN "True" ELSE "False",
                           world.relationships)
    /\ UNCHANGED <<pc, heap, now, builderVars, doc, decoded>>

\* World.get_relationship_between(a, b)
ApiGetRelationshipBetween(a, b) ==
    /\ pc = "api"
    /\ ret' = Call("get_relationship_between", <<a, b>>,
                   get_relationship_between(world, heap, heap[a], heap[b]),
                   world.relationships)
    /\ UNCHANGED <<pc, world, heap, now, builderVars, doc, decoded>>

NextWorld ==
    \/ \E o \in 1..Len(heap) : ApiAddCharacter(o)
    \/ \E o \in 1..Len(heap) : ApiAddLocation(o)
    \/ \E o \in 1..Len(heap) : ApiAddRelationship(o)
    \/ \E a, b \in OfType(heap, "Character") : a # b /\ ApiGetRelationshipBetween(a, b)

SpecWorld == InitWorld /\ [][NextWorld]_vars

\* ------------------------------------------------------ flipped(), repeated
\* the cast, in a World that is empty or holds the relationship r1
InitFlip ==
    /\ pc = "flip"
    /\ args = NoArgs
    /\ \E n1, n2, n3 \in Names, t \in CastTimes, twin, held \in BOOLEAN :
          /\ heap = CastHeap(n1, n2, n3, t, twin)
          /\ now = t[5]
          /\ world = IF held
                     THEN [NewWorld(<<"w">>, <<"d">>, 0) EXCEPT !.relationships = <<4>>]
                     ELSE NewWorld(<<"w">>, <<"d">>, 0)
    /\ InitIdle

\* r.flipped() on the relationship object o; the clock may have moved on.
\* from is the object o was itself flipped from, when the last call made o.
ApiFlipped(o) ==
    /\ pc = "flip" /\ Len(heap) < 6 + MaxFlips
    /\ heap[o].type = "Relationship"
    /\ \E t \in Times :
          /\ now' = t
          /\ heap' = Append(heap, flipped(heap[o], t))
    /\ ret' = [op |-> "flipped", arg |-> o, result |-> FreshOid(heap),
               from |-> IF ret.op = "flipped" /\ ret.result = o THEN ret.arg ELSE NoneRef,
               before |-> heap[o]]
    /\ UNCHANGED <<pc, world, builderVars, doc, decoded>>

NextFlip == \E o \in 1..Len(heap) : ApiFlipped(o)

SpecFlip == InitFlip /\ [][NextFlip]_vars


\* ------------------------------------------------------------ the decoders
\* What a decoder hands back: an entity with its nested entities in place
\* (no identities), or the exception it ends with.
Decoded(kind, entity) == [kind |-> kind, ok |-> TRUE, entity |-> entity]
DecodeRaises(kind, error) == [kind |-> kind, ok |-> FALSE, error |-> error]

Has(dct, key) == key \in DOMAIN dct.v

\* the Python value of a decoded traits document: a list of lists or a dict;
\* any other JSON value is taken as it is
PyTraits(jv) ==
    IF jv.t = "list"
    THEN [k \in 1..Len(jv.v) |-> <<jv.v[k].v[1].v, jv.v[k].v[2].v>>]
    ELSE IF jv.t = "dict"
    THEN [k \in 1..Len(jv.v) |-> <<jv.v[k][1], jv.v[k][2].v>>]
    ELSE jv.v

\* a str that holds a JSON object
IsJsonDocument(text) == Len(text) >= 2 /\ text[1] = "{" /\ text[Len(text)] = "}"

\* json.loads(dct[key], cls=...) raises: KeyError without the key, TypeError
\* for a value that is no str, JSONDecodeError for a str that is no document
NestedLoadsRaises(dct, key) ==
    \/ ~Has(dct, key)
    \/ dct.v[key].t # "str"
    \/ ~IsJsonDocument(dct.v[key].v)

\* try: x = json.loads(dct[key], cls=...) except: x = []
NestedOrEmpty(dct, key) ==
    IF NestedLoadsRaises(dct, key) THEN <<>> ELSE <<"nested document">>

\* try: x = dct["traits"] except: x = []
TraitsOrEmpty(dct) == IF Has(dct, "traits") THEN PyTraits(dct.v.traits) ELSE <<>>

\* ItemDecoder.decode
ItemDecoder(dct) ==
    IF ~Has(dct, "name") \/ ~Has(dct, "description")
    THEN DecodeRaises("Item", "KeyError")
    ELSE Decoded("Item",
            [name |-> dct.v.name.v, description |-> dct.v.description.v,
             traits |-> TraitsOrEmpty(dct),
             size |-> IF Has(dct, "size") THEN dct.v.size.v ELSE MEDIUM])

\* LocationDecoder.decode
LocationDecoder(dct) ==
    IF ~Has(dct, "name") \/ ~Has(dct, "description")
    THEN DecodeRaises("Location", "KeyError")
    ELSE Decoded("Location",
            [name |-> dct.v.name.v, description |-> dct.v.description.v,
             traits |-> TraitsOrEmpty(dct),
             inventory |-> NestedOrEmpty(dct, "inventory")])

\* CharacterDecoder.decode: the description is not read
CharacterDecoder(dct) ==
    IF ~Has(dct, "name") \/ ~Has(dct, "created_time")
    THEN DecodeRaises("Character", "KeyError")
    ELSE Decoded("Character",
            [name |-> dct.v.name.v, description |-> NewCharacter(dct.v.name.v, 0).description,
             traits |-> TraitsOrEmpty(dct),
             inventory |-> NestedOrEmpty(dct, "inventory"),
             created_time |-> dct.v.created_time.v])

\* RelationshipDecoder.decode: Relationship.__init__ is given the two names,
\* two str, and reads their .name
RelationshipDecoder(dct) ==
    IF ~Has(dct, "characterAName") \/ ~Has(dct, "characterBName")
    THEN DecodeRaises("Relationship", "KeyError")
    ELSE DecodeRaises("Relationship", "AttributeError")

\* WorldDecoder.decode
WorldDecoder(dct) ==
    IF ~Has(dct, "name") \/ ~Has(dct, "description") \/ ~Has(dct, "created_time")
    THEN DecodeRaises("World", "KeyError")
    ELSE Decoded("World",
            [name |-> dct.v.name.v, description |-> dct.v.description.v,
             characters |-> NestedOrEmpty(dct, "characters"),
             relationships |-> NestedOrEmpty(dct, "relationships"),
             locations |-> NestedOrEmpty(dct, "locations"),
             created_time |-> dct.v.created_time.v])

\* json.loads(text, cls=<the decoder of kind>)
Decode(kind, dct) ==
    CASE kind = "World" -> WorldDecoder(dct)
      [] kind = "Location" -> LocationDecoder(dct)
      [] kind = "Character" -> CharacterDecoder(dct)
      [] kind = "Relationship" -> RelationshipDecoder(dct)
      [] kind = "Item" -> ItemDecoder(dct)

\* encode() of the World (target 0) or of the heap object target
Encode(w, h, target) ==
    IF target = 0 THEN WorldDoc(w, h)
    ELSE CASE h[target].type = "Location" -> LocationDoc(h, target)
           [] h[target].type = "Character" -> CharacterDoc(h, target)
           [] h[target].type = "Relationship" -> RelationshipDoc(h, target)
           [] h[target].type = "Item" -> ItemDoc(h, target)

KindOf(h, target) == IF target = 0 THEN "World" ELSE h[target].type

\* The entities that are encoded: a World as the builder leaves it, with
\* described Characters, a Relationship, and a Location that has a trait and
\* an Item, or the same entities not yet linked, or a World that was given the
\* Relationship (add_relationship) but not its two Characters.
D == <<"d">>

CodecHeap(n1, n2, t, symmetric, trait, stocked) ==
    LET c1 == [NewCharacter(n1, t[1]) EXCEPT !.description = D]
        c2 == [NewCharacter(n2, t[2]) EXCEPT !.description = D]
        r0 == NewRelationship(c1, c2, t[3])
        r  == IF symmetric THEN set_symmetric_relationship(r0, P)
              ELSE set_asymmetric_relationship(r0, P, Q)
        it == [NewItem(<<"a">>) EXCEPT !.description = D,
                                      !.traits = IF trait THEN <<<<P, Q>>>> ELSE <<>>]
        l  == [NewLocation(<<"a">>) EXCEPT !.description = D,
                                          !.traits = IF trait THEN <<<<P, Q>>>> ELSE <<>>,
                                          !.inventory = IF stocked THEN <<5>> ELSE <<>>]
    IN  <<c1, c2, r, l, it>>

InitCodec ==
    /\ pc = "codec"
    /\ args = NoArgs
    /\ \E n1, n2 \in Names, t \in CastTimes, symmetric, trait, stocked \in BOOLEAN,
          linked \in {"all", "relationship only", "none"} :
          /\ heap = CodecHeap(n1, n2, t, symmetric, trait, stocked)
          /\ now = t[5]
          /\ world = IF linked = "all"
                     THEN [NewWorld(<<"w">>, D, t[1]) EXCEPT !.characters = <<1, 2>>,
                                                            !.relationships = <<3>>,
                                                            !.locations = <<4>>]
                     ELSE IF linked = "relationship only"
                     THEN [NewWorld(<<"w">>, D, t[1]) EXCEPT !.relationships = <<3>>]
                     ELSE NewWorld(<<"w">>, D, t[1])
    /\ InitIdle

\* encode() of the World or of one entity
ApiEncode(target) ==
    /\ pc = "codec"
    /\ doc' = [kind |-> KindOf(heap, target), of |-> target, gaps |-> {},
               text |-> Encode(world, heap, target)]
    /\ decoded' = [kind |-> "none"]
    /\ UNCHANGED <<pc, world, heap, now, builderVars, ret>>

\* json.loads(doc, cls=<decoder>) of the last document
ApiDecode ==
    /\ pc = "codec" /\ doc.kind # "none" /\ decoded.kind = "none"
    /\ decoded' = Decode(doc.kind, doc.text)
    /\ UNCHANGED <<pc, world, heap, now, builderVars, ret, doc>>

\* The documents a decoder may be given besides the encoder's: one of the
\* optional or nested fields is left out, or holds a value of the wrong kind (a
\* size that is no Size, a str that is neither a collection nor a document).
OptionalKeys == {"traits", "inventory", "characters", "relationships", "locations", "size"}

Malformed(key) == IF key = "size" THEN JNum(MEDIUM + 7) ELSE JStr(<<"x">>)

Without(fields, key) == [k \in (DOMAIN fields) \ {key} |-> fields[k]]

Damaged(text, key, how) ==
    IF how = "absent"
    THEN JObject(Without(text.v, key))
    ELSE JObject([text.v EXCEPT ![key] = Malformed(key)])

\* the document is edited before it is decoded
ApiDamage(key, how) ==
    /\ pc = "codec" /\ doc.kind # "none" /\ decoded.kind = "none"
    /\ key \in (OptionalKeys \cap DOMAIN doc.text.v) /\ key \notin doc.gaps
    /\ doc' = [doc EXCEPT !.gaps = @ \cup {key}, !.text = Damaged(@, key, how)]
    /\ UNCHANGED <<pc, world, heap, now, builderVars, ret, decoded>>

NextCodec ==
    \/ \E target \in 0..Len(heap) : ApiEncode(target)
    \/ \E key \in OptionalKeys, how \in {"absent", "malformed"} : ApiDamage(key, how)
    \/ ApiDecode

SpecCodec == InitCodec /\ [][NextCodec]_vars


\* ---------------------------------------------------------------- add_trait
\* traits of a Character or an Item are a dict, kept here as the sequence of
\* its (quality, description) entries in insertion order; traits of a Location
\* are a list of (quality, description) tuples

\* dct[quality] = description: an existing key keeps its place
DictSet(dct, quality, description) ==
    IF \E k \in 1..Len(dct) : dct[k][1] = quality
    THEN [k \in 1..Len(dct) |->
             IF dct[k][1] = quality THEN <<quality, description>> ELSE dct[k]]
    ELSE Append(dct, <<quality, description>>)

\* Location.add_trait
Location_add_trait(l, quality, description) ==
    [l EXCEPT !.traits = Append(@, <<quality, description>>)]

\* add_trait of a Character that appends like a Location's
Character_add_trait_Appended(c, quality, description) ==
    [c EXCEPT !.traits = Append(@, <<quality, description>>)]

\* Character.add_trait
Character_add_trait(c, quality, description) ==
    [c EXCEPT !.traits = DictSet(@, quality, description)]

\* Item.add_trait
Item_add_trait(it, quality, description) ==
    [it EXCEPT !.traits = DictSet(@, quality, description)]

\* two Characters, a Relationship, a Location and an Item, the last two with
\* one trait or with none
InitTraits ==
    /\ pc = "traits"
    /\ args = NoArgs
    /\ \E n1, n2 \in Names, trait \in BOOLEAN :
          heap = CodecHeap(n1, n2, [k \in 1..5 |-> 0], TRUE, trait, FALSE)
    /\ now = 0
    /\ world = NewWorld(<<"w">>, D, 0)
    /\ InitIdle

\* the traits all entities have
RECURSIVE TraitCount(_)
TraitCount(h) ==
    IF h = <<>> THEN 0
    ELSE (IF h[1].type = "Relationship" THEN 0 ELSE Len(h[1].traits)) + TraitCount(Tail(h))

\* o.add_trait(quality, description)
ApiAddTrait(o, quality, description) ==
    /\ pc = "traits"
    /\ heap[o].type \in {"Location", "Character", "Item"}
    /\ \/ TraitCount(heap) < MaxTraits
       \/ /\ heap[o].type # "Location"
          /\ \E k \in 1..Len(heap[o].traits) : heap[o].traits[k][1] = quality
    /\ heap' = [heap EXCEPT ![o] =
                    CASE @.type = "Location" -> Location_add_trait(@, quality, description)
                      [] @.type = "Character" -> Character_add_trait(@, quality, description)
                      [] @.type = "Item" -> Item_add_trait(@, quality, description)]
    /\ ret' = [op |-> "add_trait", arg |-> o, quality |-> quality,
               description |-> description, before |-> heap[o].traits]
    /\ UNCHANGED <<pc, world, now, builderVars, doc, decoded>>

NextTraits == \E o \in 1..Len(heap), quality, description \in {P, Q} :
                 ApiAddTrait(o, quality, description)

SpecTraits == InitTraits /\ [][NextTraits]_vars


\* ------------------------------------------------------------------ claims
Last(seq) == seq[Len(seq)]
HasDelimiter(text) == \E k \in 1..Len(text) : text[k] = "|"
HasSpace(text) == \E k \in 1..Len(text) : text[k] = " "

\* the two character references of a relationship, by name and identifier
RefA(r) == <<r.characterAName, r.characterA_ID>>
RefB(r) == <<r.characterBName, r.characterB_ID>>
RefOf(c) == <<c.name, c.created_time>>

\* r and s connect the same unordered pair of characters
SamePair(r, s) == {RefA(r), RefB(r)} = {RefA(s), RefB(s)}

\* r connects the characters a and b, whichever is stored as A
Connects(r, a, b) == {RefA(r), RefB(r)} = {RefOf(a), RefOf(b)}

\* r with roles and descriptions swapped, stated field by field
Mirror(r) ==
    [type |-> "Relationship",
     characterAName |-> r.characterBName, characterA_ID |-> r.characterB_ID,
     characterBName |-> r.characterAName, characterB_ID |-> r.characterA_ID,
     relateAB |-> r.relateBA, relateBA |-> r.relateAB, created_time |-> r.created_time]

\* some object of the list has the content r
ContentIn(r, lst) == \E k \in 1..Len(lst) : heap[lst[k]] = r

\* C1 (as stated): add_relationship(r) returns False and leaves the
\* relationships unchanged when an object with the content of r or of flip(r)
\* is already in the World, and otherwise returns True and appends r as the
\* last element.
C1_AddRelationshipRejectsEquivalent ==
    (ret.op = "add_relationship" /\ heap[ret.arg].type = "Relationship") =>
        IF ContentIn(heap[ret.arg], ret.before) \/ ContentIn(Mirror(heap[ret.arg]), ret.before)
        THEN ret.result = "False" /\ world.relationships = ret.before
        ELSE ret.result = "True" /\ world.relationships = Append(ret.before, ret.arg)

\* C2 (as stated): the World never holds two relationships that connect the
\* same unordered pair of characters.
C2_NoTwoRelationshipsOfOnePair ==
    \A k, m \in 1..Len(world.relationships) :
        k # m => ~SamePair(heap[world.relationships[k]], heap[world.relationships[m]])

\* C3 (as stated): an entity step whose attempts all failed leaves its target
\* collection as it was.
C3_ExhaustedStepAddsNothing ==
    (stepLog.kind \in {"location", "character", "relationship", "item"}
        /\ stepLog.outcome \in {"exhausted", "raised"})
    => stepLog.after = stepLog.before

\* C4 (as stated): an entity step whose attempts all failed made exactly 3
\* calls and the run goes on: it is never ended by that step, the first step of
\* a kind included.
C4_ExhaustedStepDoesNotAbort ==
    (stepLog.kind \in {"location", "character", "relationship", "item"}
        /\ stepLog.outcome # "ok")
    => stepLog.calls = 3 /\ stepLog.outcome = "exhausted" /\ pc # "raised"

\* the entity a step generated: the last element of its target collection
StepEntity == heap[Last(stepLog.after)]

\* C5: an entity step ends with a generated entity only on a reply that is not
\* cut off and is well formed; if k attempts failed before that reply (k < 3)
\* the step made exactly k + 1 calls, and the entity that was appended to the
\* target collection is the one the reply spells out.
C5_SuccessAfterKFailures ==
    (stepLog.kind \in {"location", "character", "relationship", "item"}
        /\ stepLog.outcome = "ok")
    => /\ ~stepLog.reply.truncated
       /\ stepLog.failed < 3
       /\ stepLog.calls = stepLog.failed + 1
       /\ stepLog.after = Append(stepLog.before, Last(stepLog.after))
       /\ IF stepLog.kind = "relationship"
          THEN \/ /\ StepEntity.relateAB = stepLog.reply.content
                  /\ StepEntity.relateBA = stepLog.reply.content
               \/ StepEntity.relateAB \o <<"|">> \o StepEntity.relateBA
                      = stepLog.reply.content
          ELSE StepEntity.name \o <<"|">> \o StepEntity.description = stepLog.reply.content

\* C5, its case: two failed attempts, then a good reply on the third
C5_Witness ==
    /\ stepLog.kind = "location" /\ stepLog.outcome = "ok"
    /\ stepLog.failed = 2 /\ stepLog.calls = 3
    /\ Len(world.locations) = 1

\* C6: world creation is one call; a reply that is cut off or has no "|" ends
\* the run with a ValueError, with no World, no entity and no further call.
C6_WorldCreationIsFatal ==
    /\ pc = "create" => calls = 0
    /\ world = NoWorld => calls <= 1
    /\ (stepLog.kind = "world"
            /\ (stepLog.reply.truncated \/ ~HasDelimiter(stepLog.reply.content)))
       => /\ pc = "raised" /\ raised = "ValueError" /\ calls = 1
          /\ world = NoWorld /\ heap = <<>> /\ saved = <<>>

\* C6, its case: the first reply was cut off although its text would parse
C6_Witness ==
    /\ pc = "raised" /\ stepLog.kind = "world"
    /\ stepLog.reply.truncated /\ HasDelimiter(stepLog.reply.content)

\* C7 (as stated): get_relationship_between(a, b) returns a stored relationship
\* that connects a and b when there is one, and None when there is none.
C7_LookupByCharacter ==
    ret.op = "get_relationship_between" =>
        LET a == heap[ret.arg[1]]
            b == heap[ret.arg[2]]
        IN  IF \E k \in 1..Len(world.relationships) :
                   Connects(heap[world.relationships[k]], a, b)
            THEN /\ ret.result # NoneRef
                 /\ InList(ret.result, world.relationships)
                 /\ Connects(heap[ret.result], a, b)
            ELSE ret.result = NoneRef

\* an entity with its nested entities in place of the references to them
ItemValue(h, oid) ==
    [name |-> h[oid].name, description |-> h[oid].description,
     traits |-> h[oid].traits, size |-> h[oid].size]

Inventory(h, oid) == [k \in 1..Len(h[oid].inventory) |-> ItemValue(h, h[oid].inventory[k])]

LocationValue(h, oid) ==
    [name |-> h[oid].name, description |-> h[oid].description,
     traits |-> h[oid].traits, inventory |-> Inventory(h, oid)]

CharacterValue(h, oid) ==
    [name |-> h[oid].name, description |-> h[oid].description,
     traits |-> h[oid].traits, inventory |-> Inventory(h, oid),
     created_time |-> h[oid].created_time]

RelationshipValue(h, oid) ==
    [characterAName |-> h[oid].characterAName, characterA_ID |-> h[oid].characterA_ID,
     characterBName |-> h[oid].characterBName, characterB_ID |-> h[oid].characterB_ID,
     relateAB |-> h[oid].relateAB, relateBA |-> h[oid].relateBA,
     created_time |-> h[oid].created_time]

WorldValue(w, h) ==
    [name |-> w.name, description |-> w.description,
     characters |-> [k \in 1..Len(w.characters) |-> CharacterValue(h, w.characters[k])],
     relationships |-> [k \in 1..Len(w.relationships) |->
                           RelationshipValue(h, w.relationships[k])],
     locations |-> [k \in 1..Len(w.locations) |-> LocationValue(h, w.locations[k])],
     created_time |-> w.created_time]

EntityValue(w, h, target) ==
    IF target = 0 THEN WorldValue(w, h)
    ELSE CASE h[target].type = "Location" -> LocationValue(h, target)
           [] h[target].type = "Character" -> CharacterValue(h, target)
           [] h[target].type = "Relationship" -> RelationshipValue(h, target)
           [] h[target].type = "Item" -> ItemValue(h, target)

\* C8 (as stated): decode(encode(E)) succeeds and reproduces every field of E,
\* nested collections, descriptions and identifiers included.
C8_DecodeEncodeRoundTrip ==
    (decoded.kind # "none" /\ doc.gaps = {}) =>
        decoded.ok /\ decoded.entity = EntityValue(world, heap, doc.of)

\* C9: the object made by flipping twice has the content of the original: the
\* two names, the two identifiers, the two descriptions and created_time.
C9_FlipTwice ==
    (ret.op = "flipped" /\ ret.from # NoneRef) =>
        /\ heap[ret.result].characterAName = heap[ret.from].characterAName
        /\ heap[ret.result].characterA_ID = heap[ret.from].characterA_ID
        /\ heap[ret.result].characterBName = heap[ret.from].characterBName
        /\ heap[ret.result].characterB_ID = heap[ret.from].characterB_ID
        /\ heap[ret.result].relateAB = heap[ret.from].relateAB
        /\ heap[ret.result].relateBA = heap[ret.from].relateBA
        /\ heap[ret.result].created_time = heap[ret.from].created_time

\* C9, its case: a relationship whose two sides differ in name, identifier and
\* description was flipped twice, the second time in a later second than the
\* one it was created in
C9_Witness ==
    /\ ret.op = "flipped" /\ ret.from # NoneRef
    /\ heap[ret.from].characterAName # heap[ret.from].characterBName
    /\ heap[ret.from].characterA_ID # heap[ret.from].characterB_ID
    /\ heap[ret.from].relateAB # heap[ret.from].relateBA
    /\ heap[ret.from].created_time < now

\* a run that asked for nothing but the World has returned
EmptyRunDone ==
    /\ pc = "done"
    /\ args.numLocations = 0 /\ args.numCharacters = 0 /\ args.numItems = 0

\* C10 (as stated): such a run made one call, and the World it returns has the
\* two delimited fields as name and description and holds no entity.
C10_EmptyWorldFromFields ==
    EmptyRunDone =>
        /\ calls = 1
        /\ world.name \o <<"|">> \o world.description = stepLog.reply.content
        /\ world.locations = <<>> /\ world.characters = <<>>
        /\ world.relationships = <<>> /\ heap = <<>>

\* C10 (amended): such a run made one call, and the World it returns has the
\* first delimited field with its whitespace removed as name, the second
\* field as description, and holds no entity.
C10_EmptyWorldFromStrippedName ==
    EmptyRunDone =>
        /\ calls = 1
        /\ ~stepLog.reply.truncated
        /\ ~HasSpace(world.name)
        /\ \E pad \in {<<>>, <<" ">>} :
              pad \o world.name \o <<"|">> \o world.description = stepLog.reply.content
        /\ world.locations = <<>> /\ world.characters = <<>>
        /\ world.relationships = <<>> /\ heap = <<>>

\* C10, its case: the reply's first field began with a blank
C10_Witness ==
    /\ EmptyRunDone
    /\ stepLog.reply.content[1] = " "
    /\ world.name = <<"b">> /\ world.description = <<"a">>

\* C11: a relationship generated on the symmetric path from the description d
\* is stored in the World with relateAB = relateBA = d, and its document, alone
\* and inside the World's document, carries d under relateAB and under relateBA.
C11_SymmetricBothDirections ==
    (stepLog.kind = "relationship" /\ stepLog.outcome = "ok"
        /\ stepLog.generator = "symmetric")
    => LET oid == Last(stepLog.after)
           d == stepLog.reply.content
       IN  /\ heap[oid].relateAB = d /\ heap[oid].relateBA = d
           /\ RelationshipDoc(heap, oid).v.relateAB = JStr(d)
           /\ RelationshipDoc(heap, oid).v.relateBA = JStr(d)
           /\ \E k \in 1..Len(world.relationships) :
                 /\ world.relationships[k] = oid
                 /\ WorldDoc(world, heap).v.relationships.v[k].v.relateAB = JStr(d)
                 /\ WorldDoc(world, heap).v.relationships.v[k].v.relateBA = JStr(d)

\* C11, its case: a symmetric relationship between two characters of different
\* names was generated from a description that is not empty
C11_Witness ==
    /\ stepLog.kind = "relationship" /\ stepLog.outcome = "ok"
    /\ stepLog.generator = "symmetric"
    /\ stepLog.reply.content # EmptyStr
    /\ heap[Last(stepLog.after)].characterAName # heap[Last(stepLog.after)].characterBName
    /\ heap[Last(stepLog.after)].relateBA = stepLog.reply.content

\* the value a field takes when the document gives none
DefaultOf(key) == IF key = "size" THEN MEDIUM ELSE <<>>

\* C12 (as stated): decoding a document in which optional or nested fields are
\* absent or malformed succeeds, the parent keeps its name, and each such
\* field has its empty or default value.
C12_GapsDecodeToDefaults ==
    (decoded.kind # "none" /\ doc.gaps # {}) =>
        /\ decoded.ok
        /\ decoded.entity.name = doc.text.v.name.v
        /\ \A key \in doc.gaps : decoded.entity[key] = DefaultOf(key)

\* C13: add_character(c) raises the type assertion's error when c is no
\* Character, add_location(l) when l is no Location, and the World is then as
\* it was; otherwise the entity is appended as the last element of its
\* collection and nothing else of the World changes.
C13_AddChecksType ==
    (ret.op \in {"add_character", "add_location"}) =>
        LET isCharacter == ret.op = "add_character"
            wanted == IF isCharacter THEN "Character" ELSE "Location"
        IN  IF heap[ret.arg].type # wanted
            THEN ret.result = "AssertionError" /\ world = ret.world
            ELSE /\ ret.result = "None"
                 /\ world = IF isCharacter
                            THEN [ret.world EXCEPT !.characters = Append(@, ret.arg)]
                            ELSE [ret.world EXCEPT !.locations = Append(@, ret.arg)]

\* C13, its case: a Location was handed to add_character of a World that
\* already holds a character
C13_Witness ==
    /\ ret.op = "add_character" /\ ret.result = "AssertionError"
    /\ heap[ret.arg].type = "Location"
    /\ Len(world.characters) = 1

\* the characters a World document lists, by name and identifier
DocCharacterRefs(text) ==
    IF Has(text, "characters") /\ text.v.characters.t = "list"
    THEN { <<text.v.characters.v[k].v.name.v, text.v.characters.v[k].v.created_time.v>> :
             k \in 1..Len(text.v.characters.v) }
    ELSE {}

\* the World document holds a relationship one of whose two references is to
\* none of the document's characters
DocDangling(text) ==
    /\ Has(text, "relationships") /\ text.v.relationships.t = "list"
    /\ \E k \in 1..Len(text.v.relationships.v) :
          LET r == text.v.relationships.v[k].v
          IN  \/ <<r.characterAName.v, r.characterA_ID.v>> \notin DocCharacterRefs(text)
              \/ <<r.characterBName.v, r.characterB_ID.v>> \notin DocCharacterRefs(text)

\* C14 (as stated): decoding a World document with a relationship that refers
\* to no character of the document ends with a DanglingReference error and
\* yields no World.
C14_DanglingReferenceFails ==
    (decoded.kind = "World" /\ DocDangling(doc.text)) =>
        ~decoded.ok /\ decoded.error = "DanglingReference"

\* C15 (as stated): every relationship of the World a run returns has two
\* different character references: the A side and the B side never carry the
\* same name and identifier.
C15_TwoDistinctCharacters ==
    pc = "done" =>
        \A k \in 1..Len(world.relationships) :
            RefA(heap[world.relationships[k]]) # RefB(heap[world.relationships[k]])

\* no step changes the created_time of a Character or Relationship that exists
IdentifiersKept ==
    \A o \in 1..Len(heap) :
        heap[o].type \in {"Character", "Relationship"}
            => heap'[o].created_time = heap[o].created_time

\* C16 (as stated): encode leaves the created_time of every Character and
\* Relationship as it is, and decoding the document of a Character or of a
\* Relationship reads back the created_time that encode wrote.
C16_IdentifierStable ==
    /\ [][IdentifiersKept]_vars
    /\ []((decoded.kind \in {"Character", "Relationship"} /\ doc.gaps = {}) =>
            /\ doc.text.v.created_time = JNum(heap[doc.of].created_time)
            /\ decoded.ok
            /\ decoded.entity.created_time = heap[doc.of].created_time)

IsPrefix(a, b) == Len(a) <= Len(b) /\ SubSeq(b, 1, Len(a)) = a

\* every collection of the World and every inventory continues as it was
OnlyAppended ==
    /\ world # NoWorld =>
          /\ IsPrefix(world.locations, world'.locations)
          /\ IsPrefix(world.characters, world'.characters)
          /\ IsPrefix(world.relationships, world'.relationships)
    /\ \A o \in 1..Len(heap) :
          /\ heap'[o].type = heap[o].type
          /\ heap[o].type = "Location" => IsPrefix(heap[o].inventory, heap'[o].inventory)

\* C17: in every step of a builder run the previous content of the World's
\* locations, characters and relationships and of each location's inventory
\* is a prefix of the new content: entities are appended, never removed,
\* replaced or reordered.
C17_CollectionsOnlyGrow == [][OnlyAppended]_vars

\* C17, its case: a second location was appended after the first, and an item
\* was appended to an inventory
C17_Witness ==
    /\ pc = "done"
    /\ Len(world.locations) = 2 /\ world.locations[1] # world.locations[2]
    /\ \E o \in 1..Len(heap) : heap[o].type = "Location" /\ heap[o].inventory # <<>>

\* the places an item is held at: a location and a position of its inventory
HeldAt(it) ==
    { p \in OfType(heap, "Location") \X (1..Len(heap)) :
        p[2] <= Len(heap[p[1]].inventory) /\ heap[p[1]].inventory[p[2]] = it }

\* C18 (as stated): when a run has returned, every item that was generated is
\* held at exactly one place, in the inventory of a location of the World.
C18_ItemOwnedOnce ==
    pc = "done" =>
        \A it \in OfType(heap, "Item") :
            /\ Cardinality(HeldAt(it)) = 1
            /\ \A p \in HeldAt(it) : InList(p[1], world.locations)

\* the positions of a trait name
KeyAt(traits, quality) == {k \in 1..Len(traits) : traits[k][1] = quality}

\* C19: add_trait with a name the entity already has overwrites that trait's
\* description on a Character or an Item, whose traits keep their number, their
\* order and their unique names; on a Location it appends a further pair after
\* the existing ones, which stay as they were.
C19_ReAddedTrait ==
    (ret.op = "add_trait" /\ KeyAt(ret.before, ret.quality) # {}) =>
        LET after == heap[ret.arg].traits
        IN  IF heap[ret.arg].type = "Location"
            THEN after = Append(ret.before, <<ret.quality, ret.description>>)
            ELSE /\ Len(after) = Len(ret.before)
                 /\ \A k \in 1..Len(after) :
                       after[k] = IF k \in KeyAt(ret.before, ret.quality)
                                  THEN <<ret.quality, ret.description>>
                                  ELSE ret.before[k]
                 /\ \A k, m \in 1..Len(after) : after[k][1] = after[m][1] => k = m

\* C19, its case: a Character's trait was given another description, while
\* the Location holds the same name twice
C19_Witness ==
    /\ ret.op = "add_trait" /\ heap[ret.arg].type = "Character"
    /\ \E k \in KeyAt(ret.before, ret.quality) : ret.before[k][2] # ret.description
    /\ \E o \in OfType(heap, "Location") :
          \E k, m \in 1..Len(heap[o].traits) : k < m /\ heap[o].traits[k][1] = heap[o].traits[m][1]

\* C20: a relationship is requested only for two different characters that no
\* stored relationship connects, in either direction; and the World never
\* holds two relationships of one unordered pair of characters.
C20_ConnectedPairNotGenerated ==
    /\ pc = "relationship" =>
          /\ world.characters[ia] # world.characters[ib]
          /\ \A k \in 1..Len(world.relationships) :
                ~Connects(heap[world.relationships[k]],
                          heap[world.characters[ia]], heap[world.characters[ib]])
    /\ world # NoWorld =>
          \A k, m \in 1..Len(world.relationships) :
              k # m => ~SamePair(heap[world.relationships[k]], heap[world.relationships[m]])

\* C20, its case: two characters of different names were connected when the
\* pair was visited first, the pair was visited again in the other order, and
\* the run ended with the one relationship
C20_Witness ==
    /\ pc = "done"
    /\ Len(world.characters) = 2
    /\ heap[world.characters[1]].name # heap[world.characters[2]].name
    /\ Len(world.relationships) = 1
    /\ stepLog.kind = "relationship" /\ stepLog.outcome = "ok"

\* a call whose reply is cut off creates no object, persists nothing, links
\* no new object, and its attempt has failed: the step retries or ends without
\* a generated entity (world creation ends the run)
TruncatedYieldsNothing ==
    (calls' = calls + 1 /\ request'.truncated) =>
        /\ Len(heap') = Len(heap)
        /\ saved' = saved
        /\ world = NoWorld => (world' = NoWorld /\ pc' = "raised")
        /\ request'.kind # "world" =>
              \/ j' = j + 1 /\ stepLog' = stepLog /\ world' = world /\ heap' = heap
              \/ stepLog'.outcome \in {"exhausted", "raised"} /\ stepLog'.failed = j

\* C21: a reply marked truncated never yields an entity in world, location,
\* character, relationship or item generation, whatever its text: the attempt
\* fails, no object is made of the reply, nothing is persisted.
C21_TruncatedNeverParsed == [][TruncatedYieldsNothing]_vars

\* C21, its case: the only location step ended on a reply that was cut off
\* although its text has the delimiter, and no object exists
C21_Witness ==
    /\ stepLog.kind = "location" /\ stepLog.outcome = "raised"
    /\ request.truncated /\ stepLog.reply.truncated
    /\ HasDelimiter(stepLog.reply.content)
    /\ heap = <<>> /\ saved = <<>>

\* the object was saved, and was not linked when it was saved
SavedUnlinked(oid) ==
    \E k \in 1..Len(saved) :
        saved[k].kind # "World" /\ saved[k].oid = oid /\ ~saved[k].linked

\* C22: every entity in a collection of the World or in an inventory was given
\* to save_campaign_object when it was not linked yet, and the World is saved
\* last, when all entity steps are over.
C22_SavedBeforeLinked ==
    /\ world # NoWorld =>
          \A oid \in 1..Len(heap) : Linked(world, heap, oid) => SavedUnlinked(oid)
    /\ \A k \in 1..Len(saved) :
          saved[k].kind = "World" => (k = Len(saved) /\ pc = "done")
    /\ pc = "done" => (saved # <<>> /\ Last(saved).kind = "World")

\* C22, its case: a location and an item in it were saved and linked, and the
\* World was saved after them
C22_Witness ==
    /\ pc = "done" /\ Len(saved) = 3
    /\ saved[1].kind = "Location" /\ saved[2].kind = "Item" /\ saved[3].kind = "World"
    /\ InList(saved[1].oid, world.locations)
    /\ InList(saved[2].oid, heap[saved[1].oid].inventory)

\* a location or character request carries, among its context messages, the
\* snapshot of the World as it is when the request is made
CarriesWorldSnapshot ==
    (calls' = calls + 1 /\ request'.kind \in {"location", "character"}) =>
        \E k \in 1..Len(request'.context) : request'.context[k] = as_system_msg(world, heap)

\* C23 (as stated): every location request and every character request has
\* the current World snapshot among its context messages, the request for the
\* first location included.
C23_RequestCarriesWorld == [][CarriesWorldSnapshot]_vars

\* a call of flipped() leaves every existing object and the World as they were
FlippedChangesNothing ==
    (ret'.op = "flipped" /\ Len(heap') > Len(heap)) =>
        /\ \A o \in 1..Len(heap) : heap'[o] = heap[o]
        /\ world' = world

\* C24: flipped() returns a new Relationship that has the original's B side as
\* its A side and the original's A side as its B side (names and identifiers),
\* the original's relateBA as relateAB and relateAB as relateBA, and the
\* original's created_time; the original and the World's relationships stay
\* as they were.
C24_FlippedIsMirror ==
    /\ [][FlippedChangesNothing]_vars
    /\ [](ret.op = "flipped" =>
            /\ ret.result = Len(heap) /\ ret.result # ret.arg
            /\ ~InList(ret.result, world.relationships)
            /\ heap[ret.result] = Mirror(ret.before)
            /\ heap[ret.arg] = ret.before)

\* C24, its case: a relationship held by the World, whose two sides differ in
\* name, identifier and description, was flipped once in a later second
C24_Witness ==
    /\ ret.op = "flipped" /\ ret.from = NoneRef
    /\ InList(ret.arg, world.relationships)
    /\ ret.before.characterAName # ret.before.characterBName
    /\ ret.before.characterA_ID # ret.before.characterB_ID
    /\ ret.before.relateAB # ret.before.relateBA
    /\ ret.before.created_time < now

\* the request is out of range in one of its two checked arguments
OutOfRange(a) ==
    \/ a.numLocations < 0 \/ a.numLocations > MAX_LOCATIONS
    \/ a.numCharacters < 0 \/ a.numCharacters > MAX_CHARACTERS

\* C25 (as stated): a request with numLocations or numCharacters out of range
\* ends with a ValueError before any Generation Service call.
C25_OutOfRangeRejected ==
    (pc # "start" /\ OutOfRange(args)) =>
        pc = "raised" /\ raised = "ValueError" /\ calls = 0 /\ world = NoWorld

Requested(n) == IF n < 0 THEN 0 ELSE n

\* the ordered pairs of distinct characters in the World
OrderedPairs ==
    IF world = NoWorld THEN 0
    ELSE LET n == Cardinality({world.characters[k] : k \in 1..Len(world.characters)})
         IN  n * (n - 1)

CallBound ==
    1 + RETRY_LIMIT * (Requested(args.numLocations) + Requested(args.numCharacters)
                       + OrderedPairs + args.numItems)

C27_ItemsWithoutLocations ==
    (world # NoWorld /\ world.locations = <<>>) =>
        /\ OfType(heap, "Item") = {}
        /\ raised # "IndexError"

====
